---- MODULE Spec2Model ----
(***************************************************************************)
(* Model of sparse_matrix.py: the SparseMatrix class (constructor, text    *)
(* file codec, get_element / set_element, add / subtract / multiply).      *)
(*                                                                         *)
(* Text is a sequence of one-character strings, so that formatting and     *)
(* parsing are computed character by character as the code does.           *)
(* A Python exception is an outcome record with exc # "none".              *)
(***************************************************************************)
EXTENDS Integers, Sequences, FiniteSets, TLC

VARIABLES m1, m2, result, disk, last, pc, origin

vars == <<m1, m2, result, disk, last, pc, origin>>

(* ------------------------------ bounds --------------------------------- *)

\* rows and cols of the matrices built range over 0..MaxDim
MaxDim == 2
\* number of entry lines of a source file written by the environment
MaxSrcLines == 2
\* set_element appends a new entry only while fewer than MaxElems are stored
MaxElems == 2
\* number of entry lines of the two operand files of the arithmetic runs
MaxOperandLines == 1

Dims == 0..MaxDim
\* coordinates written in source files (out of bounds for smaller matrices)
Coords == {0, 1}
\* coordinates passed to get_element / set_element (also out of bounds)
Indexes == (-1)..MaxDim
\* entry values: negative, zero, several digits, cancelling pairs
Vals == {-10, 0, 10}
\* entry values of the operand files of the arithmetic runs
OperandVals == {-1, 1}

(* --------------------------- Python values ----------------------------- *)

PyNone == [tag |-> "none", val |-> 0]

PyInt(n) == [tag |-> "int", val |-> n]

PyPath == [tag |-> "str", val |-> 1]

PyEmptyStr == [tag |-> "str", val |-> 0]

\* truth value of an object in `if matrix_file_path:`
Truthy(x) ==
  CASE x.tag = "none" -> FALSE
    [] x.tag = "int" -> x.val # 0
    [] OTHER -> x.val # 0

NoneMatrix == [obj |-> "None", rows |-> 0, cols |-> 0, elements |-> <<>>]

Matrix(r, c, es) == [obj |-> "SparseMatrix", rows |-> r, cols |-> c, elements |-> es]

Ok(m, v) == [exc |-> "none", msg |-> "", obj |-> m, ret |-> v]

Raise(e, s) == [exc |-> e, msg |-> s, obj |-> NoneMatrix, ret |-> 0]

ValueError(s) == Raise("ValueError", s)

(* ------------------------------- text ---------------------------------- *)

DigitChars == <<"0", "1", "2", "3", "4", "5", "6", "7", "8", "9">>

IsDigit(ch) == \E i \in 1..10 : DigitChars[i] = ch

DigitVal(ch) == (CHOOSE i \in 1..10 : DigitChars[i] = ch) - 1

IsSpace(ch) == ch \in {" ", "\t", "\n", "\r"}

RECURSIVE NatStr(_)
NatStr(n) == IF n < 10 THEN <<DigitChars[n + 1]>>
             ELSE NatStr(n \div 10) \o <<DigitChars[(n % 10) + 1]>>

\* f"{n}" for an int
IntStr(n) == IF n < 0 THEN <<"-">> \o NatStr(-n) ELSE NatStr(n)

RECURSIVE LStrip(_)
LStrip(s) == IF s # <<>> /\ IsSpace(Head(s)) THEN LStrip(Tail(s)) ELSE s

RECURSIVE RStrip(_)
RStrip(s) == IF s # <<>> /\ IsSpace(s[Len(s)]) THEN RStrip(SubSeq(s, 1, Len(s) - 1)) ELSE s

\* str.strip()
Strip(s) == RStrip(LStrip(s))

\* str.startswith(p)
StartsWith(s, p) == Len(s) >= Len(p) /\ SubSeq(s, 1, Len(p)) = p

\* str.split(sep) for a one-character separator
RECURSIVE Split(_, _)
Split(s, sep) ==
  IF \E i \in 1..Len(s) : s[i] = sep
  THEN LET i == CHOOSE j \in 1..Len(s) : s[j] = sep /\ \A k \in 1..(j - 1) : s[k] # sep
       IN <<SubSeq(s, 1, i - 1)>> \o Split(SubSeq(s, i + 1, Len(s)), sep)
  ELSE <<s>>

RECURSIVE DigitsVal(_, _)
DigitsVal(s, acc) ==
  IF s = <<>> THEN acc
  ELSE IF Head(s) = "_" THEN DigitsVal(Tail(s), acc)
  ELSE DigitsVal(Tail(s), 10 * acc + DigitVal(Head(s)))

\* the literals int() accepts after the sign: digits, single underscores between them
IsIntBody(b) ==
  /\ b # <<>>
  /\ \A i \in 1..Len(b) : IsDigit(b[i]) \/ b[i] = "_"
  /\ IsDigit(b[1]) /\ IsDigit(b[Len(b)])
  /\ \A i \in 1..(Len(b) - 1) : ~(b[i] = "_" /\ b[i + 1] = "_")

\* int(s): [ok, val]; ok = FALSE stands for the ValueError int() raises
ParseInt(s) ==
  LET t == Strip(s)
      signed == t # <<>> /\ Head(t) \in {"+", "-"}
      b == IF signed THEN Tail(t) ELSE t
  IN IF IsIntBody(b)
     THEN [ok |-> TRUE, val |-> IF signed /\ Head(t) = "-" THEN 0 - DigitsVal(b, 0) ELSE DigitsVal(b, 0)]
     ELSE [ok |-> FALSE, val |-> 0]

RECURSIVE NonBlank(_)
NonBlank(ls) ==
  IF ls = <<>> THEN <<>>
  ELSE IF Strip(Head(ls)) # <<>> THEN <<Strip(Head(ls))>> \o NonBlank(Tail(ls))
  ELSE NonBlank(Tail(ls))

\* [line.strip() for line in file if line.strip()]
ReadLines(text) == NonBlank(Split(text, "\n"))

(* ------------------------------ files ---------------------------------- *)

NoFile == [exists |-> FALSE, text |-> <<>>]

File(text) == [exists |-> TRUE, text |-> text]

WrongFormat == ValueError("Input file has wrong format")

(* ------------------------- class SparseMatrix -------------------------- *)

InBoundsLoose(rows, cols, r, c) == 0 <= r /\ r <= rows /\ 0 <= c /\ c <= cols

\* the bounds test of get_element, set_element and the parser
InBounds(rows, cols, r, c) == 0 <= r /\ r < rows /\ 0 <= c /\ c < cols

\* one entry line of the file: [ok, e]; ok = FALSE stands for the ValueError raised
ParseEntry(line, rows, cols) ==
  IF line = <<>> \/ line[1] # "(" \/ line[Len(line)] # ")"
  THEN [ok |-> FALSE, e |-> <<0, 0, 0>>]
  ELSE LET content == Split(SubSeq(line, 2, Len(line) - 1), ",")
       IN IF Len(content) # 3
          THEN [ok |-> FALSE, e |-> <<0, 0, 0>>]
          ELSE LET row == ParseInt(content[1])
                   col == ParseInt(content[2])
                   value == ParseInt(content[3])
               IN IF ~(row.ok /\ col.ok /\ value.ok)
                  THEN [ok |-> FALSE, e |-> <<0, 0, 0>>]
                  ELSE IF ~InBounds(rows, cols, row.val, col.val)
                  THEN [ok |-> FALSE, e |-> <<0, 0, 0>>]
                  ELSE [ok |-> TRUE, e |-> <<row.val, col.val, value.val>>]

\* the loop over lines[2:], appending to self.elements
RECURSIVE ParseEntries(_, _, _, _)
ParseEntries(lines, rows, cols, elements) ==
  IF lines = <<>> THEN Ok(Matrix(rows, cols, elements), 0)
  ELSE LET p == ParseEntry(Head(lines), rows, cols)
       IN IF ~p.ok THEN WrongFormat
          ELSE ParseEntries(Tail(lines), rows, cols, Append(elements, p.e))

load_from_file(matrix_file_path, fs) ==
  IF matrix_file_path.tag # "str"
  THEN Raise("AttributeError", "object has no attribute 'strip'")
  ELSE IF ~fs.exists THEN ValueError("Cannot open file")
  ELSE LET lines == ReadLines(fs.text)
       IN IF Len(lines) < 2 THEN WrongFormat
          ELSE IF ~StartsWith(lines[1], <<"r", "o", "w", "s", "=">>)
                  \/ ~StartsWith(lines[2], <<"c", "o", "l", "s", "=">>)
          THEN WrongFormat
          ELSE LET rows == ParseInt(SubSeq(lines[1], 6, Len(lines[1])))
                   cols == ParseInt(SubSeq(lines[2], 6, Len(lines[2])))
               IN IF ~rows.ok \/ ~cols.ok
                  THEN ValueError("invalid literal for int() with base 10")
                  ELSE ParseEntries(SubSeq(lines, 3, Len(lines)), rows.val, cols.val, <<>>)

\* SparseMatrix(matrix_file_path, num_rows, num_cols), arguments in that order
SparseMatrix(matrix_file_path, num_rows, num_cols, fs) ==
  IF Truthy(matrix_file_path) THEN load_from_file(matrix_file_path, fs)
  ELSE IF num_rows.tag # "none" /\ num_cols.tag # "none"
  THEN Ok(Matrix(num_rows.val, num_cols.val, <<>>), 0)
  ELSE ValueError("Must provide either file path or dimensions")

\* index of the first stored entry at (r, c), 0 when there is none
FirstAt(elements, r, c) ==
  IF \E i \in 1..Len(elements) : elements[i][1] = r /\ elements[i][2] = c
  THEN CHOOSE i \in 1..Len(elements) :
         /\ elements[i][1] = r /\ elements[i][2] = c
         /\ \A j \in 1..(i - 1) : ~(elements[j][1] = r /\ elements[j][2] = c)
  ELSE 0

get_element(self, curr_row, curr_col) ==
  IF ~InBounds(self.rows, self.cols, curr_row, curr_col)
  THEN ValueError("Invalid row or column")
  ELSE LET i == FirstAt(self.elements, curr_row, curr_col)
       IN Ok(self, IF i = 0 THEN 0 ELSE self.elements[i][3])

Pop(elements, i) == SubSeq(elements, 1, i - 1) \o SubSeq(elements, i + 1, Len(elements))

set_element(self, curr_row, curr_col, value) ==
  IF ~InBounds(self.rows, self.cols, curr_row, curr_col)
  THEN [ValueError("Invalid row or column") EXCEPT !.obj = self]
  ELSE LET i == FirstAt(self.elements, curr_row, curr_col)
       IN IF i # 0
          THEN IF value = 0
               THEN Ok([self EXCEPT !.elements = Pop(self.elements, i)], 0)
               ELSE Ok([self EXCEPT !.elements[i] = <<curr_row, curr_col, value>>], 0)
          ELSE IF value # 0
               THEN Ok([self EXCEPT !.elements = Append(self.elements, <<curr_row, curr_col, value>>)], 0)
               ELSE Ok(self, 0)

RECURSIVE EntryLinesSwapped(_)
EntryLinesSwapped(elements) ==
  IF elements = <<>> THEN <<>>
  ELSE <<"(">> \o IntStr(Head(elements)[2]) \o <<",", " ">> \o IntStr(Head(elements)[1])
       \o <<",", " ">> \o IntStr(Head(elements)[3]) \o <<")", "\n">> \o EntryLinesSwapped(Tail(elements))

\* file.write of one "(row, col, value)" line per stored entry
RECURSIVE EntryLines(_)
EntryLines(elements) ==
  IF elements = <<>> THEN <<>>
  ELSE <<"(">> \o IntStr(Head(elements)[1]) \o <<",", " ">> \o IntStr(Head(elements)[2])
       \o <<",", " ">> \o IntStr(Head(elements)[3]) \o <<")", "\n">> \o EntryLines(Tail(elements))

save_to_file(self) ==
  File(<<"r", "o", "w", "s", "=">> \o IntStr(self.rows) \o <<"\n">>
       \o <<"c", "o", "l", "s", "=">> \o IntStr(self.cols) \o <<"\n">>
       \o EntryLines(self.elements))

(* --------------------------- arithmetic -------------------------------- *)

\* what a call self.op(other) leaves behind: both operands and the outcome
Call(self, other, out) == [self |-> self, other |-> other, out |-> out]

Propagate(out) == Raise(out.exc, out.msg)

\* for row, col, value in self.elements: result.set_element(row, col, value)
RECURSIVE CopyEntries(_, _)
CopyEntries(res, elements) ==
  IF elements = <<>> THEN Ok(res, 0)
  ELSE LET e == Head(elements)
           s == set_element(res, e[1], e[2], e[3])
       IN IF s.exc # "none" THEN Propagate(s) ELSE CopyEntries(s.obj, Tail(elements))

\* for row, col, value in other.elements:
\*     result.set_element(row, col, result.get_element(row, col) + sign * value)
RECURSIVE Accumulate(_, _, _)
Accumulate(res, elements, sign) ==
  IF elements = <<>> THEN Ok(res, 0)
  ELSE LET e == Head(elements)
           g == get_element(res, e[1], e[2])
       IN IF g.exc # "none" THEN Propagate(g)
          ELSE LET s == set_element(res, e[1], e[2], g.ret + sign * e[3])
               IN IF s.exc # "none" THEN Propagate(s)
                  ELSE Accumulate(s.obj, Tail(elements), sign)

\* the body of add (sign = 1) and subtract (sign = -1) after the dimension test
Combine(self, other, sign, fs) ==
  LET made == SparseMatrix(PyInt(self.rows), PyInt(self.cols), PyNone, fs)
  IN IF made.exc # "none" THEN Propagate(made)
     ELSE LET copied == CopyEntries(made.obj, self.elements)
          IN IF copied.exc # "none" THEN copied
             ELSE Accumulate(copied.obj, other.elements, sign)

add_reinit(self, other, fs) ==
  IF self.rows # other.rows \/ self.cols # other.cols
  THEN Call(self, other, ValueError("Matrix dimensions do not match for addition"))
  ELSE Call([self EXCEPT !.elements = <<>>], other, Combine(self, other, 1, fs))

add_and(self, other, fs) ==
  IF self.rows # other.rows /\ self.cols # other.cols
  THEN Call(self, other, ValueError("Matrix dimensions do not match for addition"))
  ELSE Call(self, other, Combine(self, other, 1, fs))

add(self, other, fs) ==
  IF self.rows # other.rows \/ self.cols # other.cols
  THEN Call(self, other, ValueError("Matrix dimensions do not match for addition"))
  ELSE Call(self, other, Combine(self, other, 1, fs))

subtract(self, other, fs) ==
  IF self.rows # other.rows \/ self.cols # other.cols
  THEN Call(self, other, ValueError("Matrix dimensions do not match for subtraction"))
  ELSE Call(self, other, Combine(self, other, -1, fs))

\* for i2, j2, v2 in other.elements: if j1 == i2: accumulate v1 * v2 at (i1, j2)
RECURSIVE MultiplyInner(_, _, _)
MultiplyInner(res, e1, elements2) ==
  IF elements2 = <<>> THEN Ok(res, 0)
  ELSE LET e2 == Head(elements2)
       IN IF e1[2] # e2[1] THEN MultiplyInner(res, e1, Tail(elements2))
          ELSE LET g == get_element(res, e1[1], e2[2])
               IN IF g.exc # "none" THEN Propagate(g)
                  ELSE LET s == set_element(res, e1[1], e2[2], g.ret + (e1[3] * e2[3]))
                       IN IF s.exc # "none" THEN Propagate(s)
                          ELSE MultiplyInner(s.obj, e1, Tail(elements2))

\* for i1, j1, v1 in self.elements: ...
RECURSIVE MultiplyOuter(_, _, _)
MultiplyOuter(res, elements1, elements2) ==
  IF elements1 = <<>> THEN Ok(res, 0)
  ELSE LET inner == MultiplyInner(res, Head(elements1), elements2)
       IN IF inner.exc # "none" THEN inner
          ELSE MultiplyOuter(inner.obj, Tail(elements1), elements2)

multiply(self, other, fs) ==
  IF self.cols # other.rows
  THEN Call(self, other, ValueError("Matrix dimensions do not match for multiplication"))
  ELSE LET made == SparseMatrix(PyInt(self.rows), PyInt(other.cols), PyNone, fs)
       IN IF made.exc # "none" THEN Call(self, other, Propagate(made))
          ELSE Call(self, other, MultiplyOuter(made.obj, self.elements, other.elements))

(* ------------------------- source files -------------------------------- *)

\* sequences over S of length at most n
SeqsUpTo(S, n) == UNION {[1..k -> S] : k \in 0..n}

Entry(r, c, v) == [kind |-> "entry", r |-> r, c |-> c, v |-> v]

Junk(k) == [kind |-> k, r |-> 0, c |-> 0, v |-> 0]

\* the lines a source file is written from: entries, a blank line, malformed lines
SrcLines == {Entry(r, c, v) : r \in Coords, c \in Coords, v \in Vals}
            \cup {Junk("blank"), Junk("pair"), Junk("bare"), Junk("alpha")}

Seps == {<<",">>, <<",", " ">>}

LineText(l, sep) ==
  CASE l.kind = "entry" ->
         <<"(">> \o IntStr(l.r) \o sep \o IntStr(l.c) \o sep \o IntStr(l.v) \o <<")">>
    [] l.kind = "blank" -> <<" ", "\t">>
    [] l.kind = "pair" -> <<"(", "0", ",", "0", ")">>
    [] l.kind = "bare" -> <<"0", ",", "0", ",", "1">>
    [] OTHER -> <<"(", "0", ",", "x", ",", "1", ")">>

RECURSIVE LinesText(_, _)
LinesText(ls, sep) ==
  IF ls = <<>> THEN <<>> ELSE LineText(Head(ls), sep) \o <<"\n">> \o LinesText(Tail(ls), sep)

\* a file with both header lines and the given lines
SourceFile(rows, cols, ls, sep) ==
  File(<<"r", "o", "w", "s", "=">> \o IntStr(rows) \o <<"\n">>
       \o <<"c", "o", "l", "s", "=">> \o IntStr(cols) \o <<"\n">>
       \o LinesText(ls, sep))

\* files the parser rejects before any entry line, and the missing file
BadFiles ==
  { NoFile,
    File(<<>>),
    File(<<"r", "o", "w", "s", "=", "1", "\n">>),
    File(<<"r", "o", "w", "s", "=", "2", "\n", "c", "o", "l", "s", "=", "x", "\n">>),
    File(<<"c", "o", "l", "s", "=", "1", "\n", "r", "o", "w", "s", "=", "1", "\n">>) }

(* ------------------------------ state ---------------------------------- *)

NoCall == [op |-> "none", r |-> 0, c |-> 0, v |-> 0, given |-> <<>>,
           exc |-> "none", msg |-> "", ret |-> 0]

\* the last call made by the caller, with its arguments and its outcome
Called(op, r, c, v, given, out) ==
  [op |-> op, r |-> r, c |-> c, v |-> v, given |-> given,
   exc |-> out.exc, msg |-> out.msg, ret |-> out.ret]

Init ==
  /\ m1 = NoneMatrix
  /\ m2 = NoneMatrix
  /\ result = NoneMatrix
  /\ disk = NoFile
  /\ last = NoCall
  /\ pc = "new"
  /\ origin = "none"

Args == {PyNone} \cup {PyInt(n) : n \in Dims}

\* m1 = SparseMatrix(num_rows=..., num_cols=...), either argument possibly left
\* out, the path left out or empty
ConstructEmpty ==
  /\ pc = "new"
  /\ \E path \in {PyNone, PyEmptyStr}, num_rows \in Args, num_cols \in Args :
       LET out == SparseMatrix(path, num_rows, num_cols, NoFile)
       IN /\ last' = Called("empty", num_rows.val, num_cols.val, 0, <<>>, out)
          /\ m1' = out.obj
          /\ pc' = IF out.exc = "none" THEN "called" ELSE "failed"
          /\ origin' = IF out.exc = "none" THEN "empty" ELSE "none"
  /\ UNCHANGED <<m2, result, disk>>

Load(fs, given) ==
  LET out == SparseMatrix(PyPath, PyNone, PyNone, fs)
  IN /\ last' = Called("load", 0, 0, 0, given, out)
     /\ m1' = out.obj
     /\ pc' = IF out.exc = "none" THEN "called" ELSE "failed"
     /\ origin' = IF out.exc = "none" THEN "file" ELSE "none"

\* m1 = SparseMatrix(path) on a file the environment wrote
ConstructFromFile ==
  /\ pc = "new"
  /\ \/ \E rows \in Dims, cols \in Dims, ls \in SeqsUpTo(SrcLines, MaxSrcLines), sep \in Seps :
          Load(SourceFile(rows, cols, ls, sep), ls)
     \/ \E fs \in BadFiles : Load(fs, <<>>)
  /\ UNCHANGED <<m2, result, disk>>

GetElement ==
  /\ pc = "live"
  /\ \E r \in Indexes, c \in Indexes :
       last' = Called("get", r, c, 0, <<>>, get_element(m1, r, c))
  /\ pc' = "called"
  /\ UNCHANGED <<m1, m2, result, disk, origin>>

SetElement ==
  /\ pc = "live"
  /\ \E r \in Indexes, c \in Indexes, v \in Vals :
       LET out == set_element(m1, r, c, v)
       IN /\ Len(out.obj.elements) <= MaxElems \/ Len(out.obj.elements) <= Len(m1.elements)
          /\ last' = Called("set", r, c, v, <<>>, out)
          /\ m1' = out.obj
  /\ pc' = "called"
  /\ UNCHANGED <<m2, result, disk, origin>>

\* the caller takes the outcome of the call and goes on to its next call
Resume ==
  /\ pc = "called"
  /\ pc' = "live"
  /\ last' = NoCall
  /\ UNCHANGED <<m1, m2, result, disk, origin>>

SaveToFile ==
  /\ pc = "live"
  /\ disk' = save_to_file(m1)
  /\ last' = Called("save", 0, 0, 0, <<>>, Ok(m1, 0))
  /\ pc' = "saved"
  /\ UNCHANGED <<m1, m2, result, origin>>

\* m2 = SparseMatrix(path) on the file save_to_file wrote
Reload ==
  /\ pc = "saved"
  /\ LET out == SparseMatrix(PyPath, PyNone, PyNone, disk)
     IN /\ last' = Called("reload", 0, 0, 0, <<>>, out)
        /\ m2' = out.obj
  /\ pc' = "reloaded"
  /\ UNCHANGED <<m1, result, disk, origin>>

Next ==
  \/ ConstructEmpty
  \/ ConstructFromFile
  \/ GetElement
  \/ SetElement
  \/ Resume
  \/ SaveToFile
  \/ Reload

Spec == Init /\ [][Next]_vars

(* ------------------------ arithmetic runs ------------------------------ *)

\* the in-bounds entry lines of an operand file
OperandLines(rows, cols) ==
  {Entry(r, c, v) : r \in Coords \cap (0..(rows - 1)), c \in Coords \cap (0..(cols - 1)), v \in OperandVals}

InitArith ==
  /\ m1 = NoneMatrix
  /\ m2 = NoneMatrix
  /\ result = NoneMatrix
  /\ disk = NoFile
  /\ last = NoCall
  /\ pc = "first"
  /\ origin = "none"

\* matrix1 = SparseMatrix(file1)
LoadFirst ==
  /\ pc = "first"
  /\ \E rows \in Dims, cols \in Dims :
       \E ls \in SeqsUpTo(OperandLines(rows, cols), MaxOperandLines) :
         LET out == SparseMatrix(PyPath, PyNone, PyNone, SourceFile(rows, cols, ls, <<",", " ">>))
         IN /\ m1' = out.obj
            /\ pc' = IF out.exc = "none" THEN "second" ELSE "failed"
            /\ origin' = IF out.exc = "none" THEN "file" ELSE "none"
            /\ last' = Called("load", 0, 0, 0, <<>>, out)
  /\ UNCHANGED <<m2, result, disk>>

\* matrix2 = SparseMatrix(file2)
LoadSecond ==
  /\ pc = "second"
  /\ \E rows \in Dims, cols \in Dims :
       \E ls \in SeqsUpTo(OperandLines(rows, cols), MaxOperandLines) :
         LET out == SparseMatrix(PyPath, PyNone, PyNone, SourceFile(rows, cols, ls, <<",", " ">>))
         IN /\ m2' = out.obj
            /\ pc' = IF out.exc = "none" THEN "operands" ELSE "failed"
            /\ last' = Called("load", 0, 0, 0, <<>>, out)
  /\ UNCHANGED <<m1, result, disk, origin>>

Returned(op, call) ==
  /\ m1' = call.self
  /\ m2' = call.other
  /\ result' = call.out.obj
  /\ last' = Called(op, 0, 0, 0, <<>>, call.out)
  /\ pc' = "done"
  /\ UNCHANGED <<disk, origin>>

Add == pc = "operands" /\ Returned("add", add(m1, m2, disk))

Subtract == pc = "operands" /\ Returned("subtract", subtract(m1, m2, disk))

Multiply == pc = "operands" /\ Returned("multiply", multiply(m1, m2, disk))

\* result = matrix1.add(matrix2).subtract(matrix2)
AddThenSubtract ==
  /\ pc = "operands"
  /\ \E first \in {add(m1, m2, disk)} :
       IF first.out.exc # "none"
       THEN Returned("add_subtract", first)
       ELSE \E second \in {subtract(first.out.obj, first.other, disk)} :
              Returned("add_subtract", Call(first.self, second.other, second.out))

NextArith ==
  \/ LoadFirst
  \/ LoadSecond
  \/ Add
  \/ Subtract
  \/ Multiply
  \/ AddThenSubtract

SpecArith == InitArith /\ [][NextArith]_vars

(* ---------------------------- properties ------------------------------ *)

Positions(m) == (0..(m.rows - 1)) \X (0..(m.cols - 1))

\* the value a caller reads at position p
ValueAt(m, p) == get_element(m, p[1], p[2]).ret

StoredAt(m, p) == \E i \in 1..Len(m.elements) : m.elements[i][1] = p[1] /\ m.elements[i][2] = p[2]

CountAt(m, p) == Cardinality({i \in 1..Len(m.elements) : m.elements[i][1] = p[1] /\ m.elements[i][2] = p[2]})

\* the mapping from positions to non-zero values, as a set of triples
NonZeroEntries(m) == {<<p[1], p[2], ValueAt(m, p)>> : p \in {q \in Positions(m) : ValueAt(m, q) # 0}}

IsIndexError(call) == call.exc = "ValueError" /\ call.msg = "Invalid row or column"

IsDimensionError(call) ==
  /\ call.exc = "ValueError"
  /\ call.msg \in {"Matrix dimensions do not match for addition",
                   "Matrix dimensions do not match for subtraction",
                   "Matrix dimensions do not match for multiplication"}

\* C1: after a set_element(r, c, v) that returned, get_element(r, c) returns v
\* (which is 0 when v = 0), whatever way the matrix was built.
C1_SetThenGet ==
  (last.op = "set" /\ last.exc = "none") => get_element(m1, last.r, last.c).ret = last.v

\* C2: no matrix the program holds stores an entry of value 0.
C2_NoStoredZero ==
  \A m \in {m1, m2, result} : \A i \in 1..Len(m.elements) : m.elements[i][3] # 0

\* C3: add on operands of equal dimensions returns a matrix of those dimensions
\* whose value at every position is the sum of the operands' values there and
\* which stores an entry exactly where that sum is not zero.
C3_AddIsSum ==
  (last.op = "add" /\ m1.rows = m2.rows /\ m1.cols = m2.cols) =>
     /\ last.exc = "none"
     /\ result.obj = "SparseMatrix"
     /\ result.rows = m1.rows /\ result.cols = m1.cols
     /\ \A p \in Positions(m1) :
          /\ ValueAt(result, p) = ValueAt(m1, p) + ValueAt(m2, p)
          /\ StoredAt(result, p) <=> (ValueAt(m1, p) + ValueAt(m2, p) # 0)

RECURSIVE DotProduct(_, _, _, _, _)
DotProduct(a, b, i, j, k) ==
  IF k < 0 THEN 0
  ELSE ValueAt(a, <<i, k>>) * ValueAt(b, <<k, j>>) + DotProduct(a, b, i, j, k - 1)

\* C4: multiply on operands with A.cols = B.rows returns a matrix of dimensions
\* A.rows x B.cols whose value at (i, j) is the sum over k of A[i,k] * B[k,j],
\* stored exactly where that sum is not zero.
C4_MultiplyIsProduct ==
  (last.op = "multiply" /\ m1.cols = m2.rows) =>
     /\ last.exc = "none"
     /\ result.obj = "SparseMatrix"
     /\ result.rows = m1.rows /\ result.cols = m2.cols
     /\ \A p \in (0..(m1.rows - 1)) \X (0..(m2.cols - 1)) :
          /\ ValueAt(result, p) = DotProduct(m1, m2, p[1], p[2], m1.cols - 1)
          /\ StoredAt(result, p) <=> (DotProduct(m1, m2, p[1], p[2], m1.cols - 1) # 0)

\* C5: subtract(add(A, B), B) has the same mapping from positions to non-zero
\* values as A, for A and B of equal dimensions.
C5_AddThenSubtract ==
  (last.op = "add_subtract" /\ m1.rows = m2.rows /\ m1.cols = m2.cols) =>
     /\ last.exc = "none"
     /\ result.obj = "SparseMatrix"
     /\ result.rows = m1.rows /\ result.cols = m1.cols
     /\ NonZeroEntries(result) = NonZeroEntries(m1)

ArithOps == {"add", "subtract", "multiply", "add_subtract"}

C7_DimensionMismatch ==
  /\ (last.op \in {"add", "subtract", "add_subtract"}) =>
        (IsDimensionError(last) <=> (m1.rows # m2.rows \/ m1.cols # m2.cols))
  /\ (last.op = "multiply") => (IsDimensionError(last) <=> (m1.cols # m2.rows))
  /\ IsDimensionError(last) => result = NoneMatrix

C7_Witness ==
  /\ last.op = "add" /\ IsDimensionError(last)
  /\ m1.rows = m2.rows /\ m1.cols # m2.cols
  /\ m1.elements # <<>>

IsLastAt(given, i) ==
  /\ given[i].kind = "entry"
  /\ \A j \in (i + 1)..Len(given) :
       ~(given[j].kind = "entry" /\ given[j].r = given[i].r /\ given[j].c = given[i].c)

\* C8: after a source is parsed, get_element(row, col) returns the value of the
\* last entry line written for (row, col), and at most one entry is stored for
\* any (row, col).
C8_LastWins ==
  (last.op = "load" /\ last.exc = "none") =>
     /\ \A i \in 1..Len(last.given) :
          IsLastAt(last.given, i) =>
             get_element(m1, last.given[i].r, last.given[i].c).ret = last.given[i].v
     /\ \A p \in Positions(m1) : CountAt(m1, p) <= 1

\* C9: get_element and set_element fail, with the index error, exactly when
\* the row is outside [0, rows) or the column outside [0, cols); a failing
\* set_element leaves rows, cols and the stored entries unchanged.
C9_IndexError ==
  [][(last'.op \in {"get", "set"}) =>
       /\ (last'.r \in 0..(m1.rows - 1) /\ last'.c \in 0..(m1.cols - 1)) => last'.exc = "none"
       /\ ~(last'.r \in 0..(m1.rows - 1) /\ last'.c \in 0..(m1.cols - 1)) => IsIndexError(last')
       /\ last'.exc # "none" => m1' = m1]_vars

C9_Witness ==
  /\ last.op = "set" /\ IsIndexError(last)
  /\ last.r = m1.rows /\ last.c = 0 /\ last.v # 0
  /\ m1.cols > 0 /\ m1.elements # <<>>

\* C10: a matrix built empty and filled by set_element calls, written by
\* save_to_file and parsed again, comes back with the same rows, the same cols
\* and the same mapping from positions to non-zero values.
C10_RoundTrip ==
  (pc = "reloaded" /\ origin = "empty") =>
     /\ last.exc = "none"
     /\ m2.obj = "SparseMatrix"
     /\ m2.rows = m1.rows /\ m2.cols = m1.cols
     /\ NonZeroEntries(m2) = NonZeroEntries(m1)
     /\ m2.elements = m1.elements

C10_Witness ==
  /\ pc = "reloaded" /\ origin = "empty" /\ last.exc = "none"
  /\ Len(m1.elements) >= 2
  /\ \E i \in 1..Len(m1.elements) : m1.elements[i][3] < 0 /\ m1.elements[i][1] # m1.elements[i][2]

====
